---- MODULE Spec2Model ----
(***************************************************************************)
(* Model of the sonar rule manifest-exists                                 *)
(* (src/lib/rules/manifest-exists/manifest-exists.ts).                     *)
(*                                                                         *)
(* One rule instance, as returned by create(context): the closure variable *)
(* manifestIsSpecified, the two handlers registered for 'element::link'    *)
(* and 'traverse::end', and the collaborators of the context               *)
(* (context.report, context.fetchContent) recorded as logs.                *)
(*                                                                         *)
(* JavaScript strings are TLA+ strings, read character by character with   *)
(* SubSeq.  A nullable value is Null (the empty tuple) or Some(v) (the     *)
(* one-element tuple holding v).                                           *)
(***************************************************************************)
EXTENDS Integers, Sequences, FiniteSets, TLC

\* ---------------------------------------------------------------------------
\* Bounds of the model
\* ---------------------------------------------------------------------------

\* number of element::link events the scanner delivers to the instance
MaxEvents == 3

\* number of element::link events the scanner delivers to two instances
\* together: a second instance is created while fewer have been delivered
MaxEventsBoth == 2

\* ---------------------------------------------------------------------------
\* Nullable values and strings
\* ---------------------------------------------------------------------------

Null == <<>>

Some(v) == <<v>>

Value(o) == o[1]

\* F applied to the value of x: x is evaluated once, whatever F does with it
Bind(x, F(_)) == CHOOSE r \in { F(v) : v \in {x} } : TRUE

Char(s, i) == SubSeq(s, i, i)

Substr(s, i) == SubSeq(s, i, Len(s))

\* String.prototype.indexOf for a one-character needle, 1-based; 0 = absent
IndexOf(s, c) ==
    Bind(s, LAMBDA str :
        IF \E i \in 1..Len(str) : Char(str, i) = c
        THEN CHOOSE i \in 1..Len(str) :
                /\ Char(str, i) = c
                /\ \A j \in 1..(i - 1) : Char(str, j) # c
        ELSE 0)

StartsWith(s, p) == Len(s) >= Len(p) /\ SubSeq(s, 1, Len(p)) = p

UpperChars == "ABCDEFGHIJKLMNOPQRSTUVWXYZ"

LowerChars == "abcdefghijklmnopqrstuvwxyz"

LowerChar(c) ==
    Bind(IndexOf(UpperChars, c), LAMBDA at :
        IF at # 0 THEN Char(LowerChars, at) ELSE c)

RECURSIVE LowerFrom(_, _)
LowerFrom(s, i) ==
    IF i > Len(s) THEN ""
    ELSE LowerChar(Char(s, i)) \o LowerFrom(s, i + 1)

\* String.prototype.toLowerCase
ToLowerCase(s) == Bind(s, LAMBDA str : LowerFrom(str, 1))

\* String.prototype.split for a one-character separator
RECURSIVE Split(_, _)
Split(s, sep) ==
    Bind(s, LAMBDA str :
    Bind(IndexOf(str, sep), LAMBDA at :
        IF at = 0 THEN <<str>>
        ELSE <<SubSeq(str, 1, at - 1)>> \o Split(Substr(str, at + 1), sep)))

\* Array.prototype.join
RECURSIVE Join(_, _)
Join(parts, sep) ==
    Bind(parts, LAMBDA p :
        IF Len(p) = 0 THEN ""
        ELSE IF Len(p) = 1 THEN p[1]
        ELSE p[1] \o sep \o Join(Tail(p), sep))

\* ---------------------------------------------------------------------------
\* Node's url module, as the rule uses it (url.parse(href).protocol and
\* url.resolve(resource, href)), for http(s) documents
\* ---------------------------------------------------------------------------

\* the characters of protocolPattern = /^[a-z0-9.+-]+:/i
ProtocolChars == "abcdefghijklmnopqrstuvwxyzABCDEFGHIJKLMNOPQRSTUVWXYZ0123456789.+-"

\* length of the match of protocolPattern at the start of s; 0 = no match
ProtocolLen(s) ==
    Bind(IndexOf(s, ":"), LAMBDA colon :
        IF /\ colon > 1
           /\ \A j \in 1..(colon - 1) : IndexOf(ProtocolChars, Char(s, j)) # 0
        THEN colon
        ELSE 0)

\* the part of s before the first c, all of s when there is none
Before(s, c) ==
    Bind(IndexOf(s, c), LAMBDA at : IF at = 0 THEN s ELSE SubSeq(s, 1, at - 1))

\* the part of s from the first c on, "" when there is none
From(s, c) ==
    Bind(IndexOf(s, c), LAMBDA at : IF at = 0 THEN "" ELSE Substr(s, at))

\* url.parse(s, false, slashesDenoteHost): protocol, host, pathname, search, hash
urlParse(s, slashesDenoteHost) ==
    Bind(s, LAMBDA str :
    Bind(ProtocolLen(str), LAMBDA protoLen :
    Bind((slashesDenoteHost \/ protoLen # 0)
            /\ StartsWith(Substr(str, protoLen + 1), "//"), LAMBDA slashes :
    Bind(Substr(str, protoLen + 1 + (IF slashes THEN 2 ELSE 0)), LAMBDA rest :
    Bind(Before(Before(rest, "#"), "?"), LAMBDA hostAndPath :
    Bind(IF slashes THEN ToLowerCase(Before(hostAndPath, "/")) ELSE "", LAMBDA host :
    Bind(IF slashes THEN From(hostAndPath, "/") ELSE hostAndPath, LAMBDA path :
        [ protocol |-> IF protoLen = 0 THEN Null
                       ELSE Some(ToLowerCase(SubSeq(str, 1, protoLen))),
          slashes  |-> slashes,
          host     |-> host,
          pathname |-> IF slashes /\ host # "" /\ path = "" THEN "/" ELSE path,
          search   |-> From(Before(rest, "#"), "?"),
          hash     |-> From(rest, "#") ])))))))

\* the loop of Url.prototype.resolveObject that strips "." and ".." segments,
\* walking the segments from the last to the first; up counts pending ".."
RECURSIVE StripDots(_, _, _)
StripDots(segs, i, up) ==
    IF i = 0 THEN <<>>
    ELSE IF segs[i] = "." THEN StripDots(segs, i - 1, up)
    ELSE IF segs[i] = ".." THEN StripDots(segs, i - 1, up + 1)
    ELSE IF up > 0 THEN StripDots(segs, i - 1, up - 1)
    ELSE Append(StripDots(segs, i - 1, up), segs[i])

\* the path merge of Url.prototype.resolveObject for a source with a host
\* and an absolute path (mustEndAbs is true)
MergePath(srcPathname, relPathname, relHasHost) ==
    Bind(Split(srcPathname, "/"), LAMBDA srcPath :
    Bind(Split(relPathname, "/"), LAMBDA relPath :
    Bind(IF relHasHost \/ StartsWith(relPathname, "/") THEN relPath
        ELSE SubSeq(srcPath, 1, Len(srcPath) - 1) \o relPath, LAMBDA merged :
    Bind(merged[Len(merged)] \in {".", "..", ""}, LAMBDA hasTrailingSlash :
    Bind(StripDots(merged, Len(merged), 0), LAMBDA stripped :
    Bind(IF Len(stripped) = 0 \/ stripped[1] # ""
        THEN <<"">> \o stripped ELSE stripped, LAMBDA absolute :
    Bind(Join(absolute, "/"), LAMBDA joined :
        IF hasTrailingSlash /\ (Len(joined) = 0 \/ Char(joined, Len(joined)) # "/")
        THEN Join(Append(absolute, ""), "/")
        ELSE joined)))))))

urlFormat(u) ==
    Bind(u, LAMBDA o :
        (IF o.protocol = Null THEN "" ELSE Value(o.protocol))
            \o (IF o.slashes THEN "//" ELSE "")
            \o o.host \o o.pathname \o o.search \o o.hash)

\* url.resolve(from, to) == url.parse(from).resolveObject(to).format()
urlResolve(from, to) ==
    Bind(urlParse(from, FALSE), LAMBDA source :
    Bind(urlParse(to, TRUE), LAMBDA relative :
        IF to = "" THEN urlFormat([source EXCEPT !.hash = ""])
        ELSE IF relative.slashes /\ relative.protocol = Null
        THEN urlFormat([relative EXCEPT !.protocol = source.protocol])
        ELSE IF relative.protocol # Null /\ relative.protocol # source.protocol
        THEN urlFormat(relative)
        ELSE IF relative.pathname = ""
        THEN urlFormat([source EXCEPT
                            !.search = IF relative.search # ""
                                       THEN relative.search ELSE source.search,
                            !.hash = relative.hash])
        ELSE urlFormat([source EXCEPT
                            !.host = IF relative.host # ""
                                     THEN relative.host ELSE source.host,
                            !.pathname = MergePath(source.pathname, relative.pathname,
                                                   relative.host # ""),
                            !.search = relative.search,
                            !.hash = relative.hash])))

\* ---------------------------------------------------------------------------
\* Inputs: the events and fetch results the collaborators can deliver
\* ---------------------------------------------------------------------------

\* data.resource: the URL of the document the element was found in
PageURL == "https://example.com/page.html"

DocsURL == "https://example.com/docs/pwa/index.html?lang=en"

\* the <link> elements that are delivered: their rel and href attributes and
\* the resource they are found in
Links ==
    { [rel |-> Some("manifest"), href |-> Some("/app.manifest"),       resource |-> PageURL],
      [rel |-> Some("manifest"), href |-> Some("/app.manifest"),       resource |-> DocsURL],
      [rel |-> Some("manifest"), href |-> Some("../site.webmanifest"), resource |-> PageURL],
      [rel |-> Some("manifest"), href |-> Some("../site.webmanifest"), resource |-> DocsURL],
      [rel |-> Some("manifest"), href |-> Some("https://cdn.example.com/m.json"),
                                                                       resource |-> PageURL],
      [rel |-> Some("manifest"), href |-> Some(""),                    resource |-> DocsURL],
      [rel |-> Some("manifest"), href |-> Null,                        resource |-> PageURL],
      [rel |-> Some("Manifest"), href |-> Some("/app.manifest"),       resource |-> PageURL],
      [rel |-> Null,             href |-> Null,                        resource |-> DocsURL] }

\* the statusCode of a fetchContent result: null for a local file
StatusCodes == { Null, Some(0), Some(200), Some(404), Some(500) }

\* ---------------------------------------------------------------------------
\* State
\* ---------------------------------------------------------------------------

VARIABLES
    manifestIsSpecified,  \* the closure variable of create()
    calls,                \* the invocations of manifestExists, in arrival order
    fetches,              \* the calls of context.fetchContent, in call order
    reports,              \* the calls of context.report, in call order
    traverseEnd,          \* Null, or Some(n): 'traverse::end' was delivered
                          \* after n 'element::link' events
    parked                \* Null, or Some(r): r is the state of the other
                          \* instance, made by another call of create(); the
                          \* variables above are those of the instance that
                          \* the next event is delivered to

vars == <<manifestIsSpecified, calls, fetches, reports, traverseEnd, parked>>

\* element.getAttribute(name): null when the attribute is absent
getAttribute(element, name) == element[name]

\* JavaScript truthiness of a string | null
TruthyString(s) == s # Null /\ Value(s) # ""

\* JavaScript truthiness of a number | null
TruthyNumber(n) == n # Null /\ Value(n) # 0

\* context.report(resource, element, message), called by invocation call of
\* manifestExists (call = 0: called by manifestWasSpecified)
Report(resource, element, message, call) ==
    [resource |-> resource, element |-> element, message |-> message, call |-> call]

Init ==
    /\ manifestIsSpecified = FALSE
    /\ calls = <<>>
    /\ fetches = <<>>
    /\ reports = <<>>
    /\ traverseEnd = Null
    /\ parked = Null

\* ---------------------------------------------------------------------------
\* 'traverse::end'
\* ---------------------------------------------------------------------------

\* mutant of manifestWasSpecified: the flag is reset when the traversal ends
manifestWasSpecifiedReset ==
    /\ traverseEnd = Null
    /\ traverseEnd' = Some(Len(calls))
    /\ reports' = IF ~manifestIsSpecified
                  THEN Append(reports,
                           Report(Null, Null, "Web app manifest not specified", 0))
                  ELSE reports
    /\ manifestIsSpecified' = FALSE
    /\ UNCHANGED <<calls, fetches, parked>>

\* mutant of manifestWasSpecified: the handler marks the manifest as specified
\* once it has reported that it is missing
manifestWasSpecifiedMarks ==
    /\ traverseEnd = Null
    /\ traverseEnd' = Some(Len(calls))
    /\ reports' = IF ~manifestIsSpecified
                  THEN Append(reports,
                           Report(Null, Null, "Web app manifest not specified", 0))
                  ELSE reports
    /\ manifestIsSpecified' = TRUE
    /\ UNCHANGED <<calls, fetches, parked>>

\* mutant of manifestWasSpecified: the test of line 31 is missing
manifestWasSpecifiedAlways ==
    /\ traverseEnd = Null
    /\ traverseEnd' = Some(Len(calls))
    /\ reports' = Append(reports,
                      Report(Null, Null, "Web app manifest not specified", 0))
    /\ UNCHANGED <<manifestIsSpecified, calls, fetches, parked>>

manifestWasSpecified ==
    /\ traverseEnd = Null
    /\ traverseEnd' = Some(Len(calls))
    /\ reports' = IF ~manifestIsSpecified
                  THEN Append(reports,
                           Report(Null, Null, "Web app manifest not specified", 0))
                  ELSE reports
    /\ UNCHANGED <<manifestIsSpecified, calls, fetches, parked>>

\* ---------------------------------------------------------------------------
\* 'element::link'
\* ---------------------------------------------------------------------------

\* mutant of IsManifestLink: the rel value is compared ignoring case
IsManifestLinkIgnoreCase(element) ==
    /\ getAttribute(element, "rel") # Null
    /\ ToLowerCase(Value(getAttribute(element, "rel"))) = "manifest"

\* mutant of IsManifestLink: any element with a rel attribute is taken
IsManifestLinkAnyRel(element) == getAttribute(element, "rel") # Null

\* line 39: element.getAttribute('rel') === 'manifest'
IsManifestLink(element) == getAttribute(element, "rel") = Some("manifest")

\* mutant of SpecifiedAfterLink: line 50 is missing
SpecifiedNeverSet(element) == manifestIsSpecified

\* mutant of SpecifiedAfterLink: line 50 is moved behind the await of line 82,
\* so only the paths that never suspend set the flag before they return
SpecifiedAfterAwait(element) ==
    \/ manifestIsSpecified
    \/ /\ getAttribute(element, "rel") = Some("manifest")
       /\ ~TruthyString(getAttribute(element, "href"))

\* mutant of SpecifiedAfterLink: line 50 is moved behind the href check of
\* lines 63-67
SpecifiedWhenHrefValid(element) ==
    \/ manifestIsSpecified
    \/ /\ getAttribute(element, "rel") = Some("manifest")
       /\ TruthyString(getAttribute(element, "href"))

\* lines 44-50: the value of manifestIsSpecified when manifestExists returns
\* or suspends
SpecifiedAfterLink(element) == manifestIsSpecified \/ IsManifestLink(element)

\* mutant of manifestURL: the href is fetched as it is written
manifestURLVerbatim(resource, manifestHref) == manifestHref

\* lines 72-76: the URL handed to context.fetchContent
manifestURL(resource, manifestHref) ==
    IF urlParse(manifestHref, FALSE).protocol # Null
    THEN manifestHref
    ELSE urlResolve(resource, manifestHref)

\* lines 72-76 for every resource and href that an event can carry: the URL
\* depends on nothing but these two constants of the invocation
manifestURLs ==
    [ p \in { <<l.resource, Value(l.href)>> : l \in { k \in Links : k.href # Null } }
        |-> manifestURL(p[1], p[2]) ]

\* mutant of InvalidHref: only the absent attribute is caught
InvalidHrefOnlyNull(manifestHref) == manifestHref = Null

\* line 63: !manifestHref
InvalidHref(manifestHref) == ~TruthyString(manifestHref)

\* mutant of FetchFailedStatus: the comparison with 200 is missing
FetchFailedStatusTruthy(statusCode) == TruthyNumber(statusCode)

\* line 87: statusCode && statusCode !== 200
FetchFailedStatus(statusCode) == TruthyNumber(statusCode) /\ Value(statusCode) # 200

\* line 88: the template literal
StatusMessage(statusCode) ==
    "Web app manifest file could not be fetched (status code: "
        \o ToString(Value(statusCode)) \o ")"

\* the 'element::link' events that were delivered to the other instance
ParkedEvents == IF parked = Null THEN 0 ELSE Len(Value(parked).calls)

\* manifestExists(data) up to its return or its await: fetchThrows tells
\* whether context.fetchContent throws before it returns a promise
manifestExists(data, fetchThrows) ==
    LET element  == data.element
        resource == data.resource
        call     == Len(calls) + 1
        isManifest   == IsManifestLink(element)
        duplicate    == isManifest /\ manifestIsSpecified
        manifestHref == getAttribute(element, "href")
        invalid      == isManifest /\ ~duplicate /\ InvalidHref(manifestHref)
        fetching     == isManifest /\ ~duplicate /\ ~invalid
    IN  /\ Len(calls) < MaxEvents
        /\ parked # Null => Len(calls) + ParkedEvents < MaxEventsBoth
        /\ element.id = call
        /\ manifestIsSpecified' = SpecifiedAfterLink(element)
        /\ calls' = Append(calls,
                        [ data |-> data,
                          read |-> IF isManifest /\ ~duplicate
                                   THEN {"rel", "href"} ELSE {"rel"},
                          pc   |-> IF fetching /\ ~fetchThrows
                                   THEN "await" ELSE "fulfilled" ])
        /\ fetches' = IF fetching
                      THEN Append(fetches,
                               [ url    |-> manifestURLs[<<resource, Value(manifestHref)>>],
                                 call   |-> call,
                                 state  |-> IF fetchThrows THEN "threw" ELSE "pending",
                                 result |-> Null ])
                      ELSE fetches
        /\ reports' =
              IF duplicate
              THEN Append(reports, Report(Some(resource), Some(element),
                              "Web app manifest already specified", call))
              ELSE IF invalid
              THEN Append(reports, Report(Some(resource), Some(element),
                              "Web app manifest specified with invalid 'href'", call))
              ELSE IF fetching /\ fetchThrows
              THEN Append(reports, Report(Some(resource), Some(element),
                              "Web app manifest file request failed", call))
              ELSE reports
        /\ UNCHANGED <<traverseEnd, parked>>

\* the fetchContent call that invocation call of manifestExists awaits
FetchOf(call) == CHOOSE k \in DOMAIN fetches : fetches[k].call = call

\* the promise of context.fetchContent is fulfilled: lines 82-89 resume
fetchContentFulfilled(call, statusCode) ==
    /\ call \in DOMAIN calls
    /\ calls[call].pc = "await"
    /\ calls' = [calls EXCEPT ![call].pc = "fulfilled"]
    /\ fetches' = [fetches EXCEPT ![FetchOf(call)].state = "fulfilled",
                                  ![FetchOf(call)].result = Some([statusCode |-> statusCode])]
    /\ reports' =
          IF FetchFailedStatus(statusCode)
          THEN Append(reports,
                   Report(Some(calls[call].data.resource),
                          Some(calls[call].data.element),
                          StatusMessage(statusCode), call))
          ELSE reports
    /\ UNCHANGED <<manifestIsSpecified, traverseEnd, parked>>

\* mutant of fetchContentRejected: there is no catch, the rejection leaves
\* manifestExists
fetchContentRejectedUncaught(call) ==
    /\ call \in DOMAIN calls
    /\ calls[call].pc = "await"
    /\ calls' = [calls EXCEPT ![call].pc = "rejected"]
    /\ fetches' = [fetches EXCEPT ![FetchOf(call)].state = "rejected"]
    /\ UNCHANGED <<manifestIsSpecified, reports, traverseEnd, parked>>

\* mutant of fetchContentRejected: resource and element are not the constants
\* of the invocation (line 37) but those of the event handled last
fetchContentRejectedLastEvent(call) ==
    /\ call \in DOMAIN calls
    /\ calls[call].pc = "await"
    /\ calls' = [calls EXCEPT ![call].pc = "fulfilled"]
    /\ fetches' = [fetches EXCEPT ![FetchOf(call)].state = "rejected"]
    /\ reports' = Append(reports,
                      Report(Some(calls[Len(calls)].data.resource),
                             Some(calls[Len(calls)].data.element),
                             "Web app manifest file request failed", call))
    /\ UNCHANGED <<manifestIsSpecified, traverseEnd, parked>>

\* mutant of fetchContentRejected: the catch block reports and throws again
fetchContentRejectedRethrown(call) ==
    /\ call \in DOMAIN calls
    /\ calls[call].pc = "await"
    /\ calls' = [calls EXCEPT ![call].pc = "rejected"]
    /\ fetches' = [fetches EXCEPT ![FetchOf(call)].state = "rejected"]
    /\ reports' = Append(reports,
                      Report(Some(calls[call].data.resource),
                             Some(calls[call].data.element),
                             "Web app manifest file request failed", call))
    /\ UNCHANGED <<manifestIsSpecified, traverseEnd, parked>>

\* the promise of context.fetchContent is rejected: lines 93-96 run
fetchContentRejected(call) ==
    /\ call \in DOMAIN calls
    /\ calls[call].pc = "await"
    /\ calls' = [calls EXCEPT ![call].pc = "fulfilled"]
    /\ fetches' = [fetches EXCEPT ![FetchOf(call)].state = "rejected"]
    /\ reports' = Append(reports,
                      Report(Some(calls[call].data.resource),
                             Some(calls[call].data.element),
                             "Web app manifest file request failed", call))
    /\ UNCHANGED <<manifestIsSpecified, traverseEnd, parked>>

\* ---------------------------------------------------------------------------
\* Specification
\* ---------------------------------------------------------------------------

\* the ElementFoundEvent for the next <link> element of the document
ElementFoundEvents ==
    { [ element  |-> [id |-> Len(calls) + 1, rel |-> l.rel, href |-> l.href],
        resource |-> l.resource ] : l \in Links }

Next ==
    \/ \E data \in ElementFoundEvents, fetchThrows \in BOOLEAN :
          manifestExists(data, fetchThrows)
    \/ \E call \in 1..MaxEvents, statusCode \in StatusCodes :
          fetchContentFulfilled(call, statusCode)
    \/ \E call \in 1..MaxEvents : fetchContentRejected(call)
    \/ manifestWasSpecified

Spec == Init /\ [][Next]_vars

\* a pending context.fetchContent promise settles and manifestExists resumes
FetchSettles ==
    \E call \in 1..MaxEvents :
        \/ \E statusCode \in StatusCodes : fetchContentFulfilled(call, statusCode)
        \/ fetchContentRejected(call)

\* the rule when every fetchContent promise is settled in the end
FairSpec == Spec /\ WF_vars(FetchSettles)

\* mutant of create: manifestIsSpecified is declared outside create(), so
\* the new instance finds it as the running one left it
createSharedFlag ==
    /\ parked = Null
    /\ Len(calls) < MaxEventsBoth
    /\ parked' = Some([ manifestIsSpecified |-> manifestIsSpecified,
                        calls |-> calls, fetches |-> fetches,
                        reports |-> reports, traverseEnd |-> traverseEnd ])
    /\ manifestIsSpecified' = manifestIsSpecified
    /\ calls' = <<>>
    /\ fetches' = <<>>
    /\ reports' = <<>>
    /\ traverseEnd' = Null

\* create(context) is called once more, for another document (lines 22-24
\* and 101-104): the running instance is set aside with its closure and the
\* new one starts with its own manifestIsSpecified and its own context
create ==
    /\ parked = Null
    /\ Len(calls) < MaxEventsBoth
    /\ parked' = Some([ manifestIsSpecified |-> manifestIsSpecified,
                        calls |-> calls, fetches |-> fetches,
                        reports |-> reports, traverseEnd |-> traverseEnd ])
    /\ manifestIsSpecified' = FALSE
    /\ calls' = <<>>
    /\ fetches' = <<>>
    /\ reports' = <<>>
    /\ traverseEnd' = Null

\* the next events go to the handlers of the other instance (lines 101-104:
\* each pair of handlers closes over the variables of its own create call)
deliverToOther ==
    /\ parked # Null
    /\ parked' = Some([ manifestIsSpecified |-> manifestIsSpecified,
                        calls |-> calls, fetches |-> fetches,
                        reports |-> reports, traverseEnd |-> traverseEnd ])
    /\ manifestIsSpecified' = Value(parked).manifestIsSpecified
    /\ calls' = Value(parked).calls
    /\ fetches' = Value(parked).fetches
    /\ reports' = Value(parked).reports
    /\ traverseEnd' = Value(parked).traverseEnd

NextInstances ==
    \/ Next
    \/ create
    \/ deliverToOther

\* two instances of the rule, for two documents that are scanned side by side
SpecInstances == Init /\ [][NextInstances]_vars

TypeOK ==
    /\ manifestIsSpecified \in BOOLEAN
    /\ Len(calls) <= MaxEvents
    /\ \A i \in DOMAIN calls : calls[i].pc \in {"await", "fulfilled"}
    /\ \A k \in DOMAIN fetches :
          /\ fetches[k].state \in {"pending", "threw", "fulfilled", "rejected"}
          /\ (fetches[k].state = "pending") = (calls[fetches[k].call].pc = "await")
    /\ traverseEnd # Null => Value(traverseEnd) <= Len(calls)
    /\ Len(fetches) <= Len(calls)

\* ---------------------------------------------------------------------------
\* Vocabulary of the properties
\* ---------------------------------------------------------------------------

NotSpecified == "Web app manifest not specified"

AlreadySpecified == "Web app manifest already specified"

InvalidHrefMessage == "Web app manifest specified with invalid 'href'"

RequestFailed == "Web app manifest file request failed"

\* the invocations that were given a <link rel="manifest"> element
ManifestCalls == { i \in DOMAIN calls : calls[i].data.element.rel = Some("manifest") }

\* the first-arrived of them
FirstManifest == CHOOSE i \in ManifestCalls : \A j \in ManifestCalls : i <= j

LaterManifests == ManifestCalls \ {FirstManifest}

\* the findings reported by invocation call (0: by the traverse::end handler)
ReportsOf(call) == SelectSeq(reports, LAMBDA r : r.call = call)

ReportsWith(message) == SelectSeq(reports, LAMBDA r : r.message = message)

FetchesOf(call) == SelectSeq(fetches, LAMBDA f : f.call = call)

\* the finding an invocation reports for its own event
FindingOf(call, message) ==
    [ resource |-> Some(calls[call].data.resource),
      element  |-> Some(calls[call].data.element),
      message  |-> message,
      call     |-> call ]

\* 'traverse::end' was delivered, and after invocation call had started
EndedAfter(call) == traverseEnd # Null /\ call <= Value(traverseEnd)

\* ---------------------------------------------------------------------------
\* C1
\* ---------------------------------------------------------------------------

\* C1: while no element with rel = "manifest" has been delivered, nothing is
\* reported before 'traverse::end', and once 'traverse::end' was delivered the
\* findings are exactly one, reported by the traverse::end handler:
\* (null, null, "Web app manifest not specified").
C1_NoManifestOneFinding ==
    ManifestCalls = {} =>
        IF traverseEnd = Null
        THEN reports = <<>>
        ELSE reports = << [ resource |-> Null, element |-> Null,
                            message |-> "Web app manifest not specified",
                            call |-> 0 ] >>

C1_Witness ==
    /\ traverseEnd # Null
    /\ ManifestCalls = {}
    /\ \E i \in DOMAIN calls : calls[i].data.element.rel = Some("Manifest")
    /\ \E i \in DOMAIN calls : calls[i].data.element.rel = Null
    /\ Len(reports) = 1

\* ---------------------------------------------------------------------------
\* C2
\* ---------------------------------------------------------------------------

\* C2: every rel = "manifest" element after the first-arrived one has exactly
\* one finding, "Web app manifest already specified" with its own resource and
\* element, its href is not read and no fetch is started for it; the first one
\* is evaluated (its href is read and it is never reported as a duplicate);
\* and a 'traverse::end' delivered after it reports no "not specified".
C2_DuplicatesReported ==
    ManifestCalls # {} =>
        /\ \A i \in LaterManifests :
              /\ ReportsOf(i) = << FindingOf(i, AlreadySpecified) >>
              /\ "href" \notin calls[i].read
              /\ FetchesOf(i) = <<>>
              /\ calls[i].pc = "fulfilled"
        /\ "href" \in calls[FirstManifest].read
        /\ \A k \in DOMAIN reports :
              reports[k].call = FirstManifest => reports[k].message # AlreadySpecified
        /\ (EndedAfter(FirstManifest) /\ LaterManifests # {})
              => ReportsWith(NotSpecified) = <<>>

C2_Witness ==
    /\ Cardinality(ManifestCalls) = 3
    /\ traverseEnd = Some(3)
    /\ Len(ReportsWith(AlreadySpecified)) = 2
    /\ Len(fetches) = 1

\* ---------------------------------------------------------------------------
\* C3
\* ---------------------------------------------------------------------------

\* the invocations that passed the duplicate check of line 44
PassedDuplicateCheck == { i \in ManifestCalls : "href" \in calls[i].read }

SomeFetchPending == \E i \in DOMAIN calls : calls[i].pc = "await"

\* C3: in every interleaving of deliveries and fetch completions the only
\* manifest element that passes the duplicate check is the first-arrived one,
\* and a manifest element delivered while a fetch is still pending is reported
\* as "Web app manifest already specified" in that very step, without a fetch
\* and without waiting for the pending one.
C3_ArrivalOrder ==
    /\ [](ManifestCalls # {} => PassedDuplicateCheck = {FirstManifest})
    /\ [][ ( /\ SomeFetchPending
             /\ Len(calls') = Len(calls) + 1
             /\ calls'[Len(calls')].data.element.rel = Some("manifest") )
           => ( /\ reports' = Append(reports,
                                  [ resource |-> Some(calls'[Len(calls')].data.resource),
                                    element  |-> Some(calls'[Len(calls')].data.element),
                                    message  |-> AlreadySpecified,
                                    call     |-> Len(calls') ])
                /\ fetches' = fetches
                /\ calls'[Len(calls')].pc = "fulfilled"
                /\ SomeFetchPending' ) ]_vars

C3_Witness ==
    /\ Cardinality(ManifestCalls) = 3
    /\ calls[1].pc = "await"
    /\ Len(ReportsWith(AlreadySpecified)) = 2
    /\ PassedDuplicateCheck = {1}

\* ---------------------------------------------------------------------------
\* C4
\* ---------------------------------------------------------------------------

\* the fetchContent calls that were fulfilled with a status code in codes
FulfilledWith(codes) ==
    { k \in DOMAIN fetches :
        /\ fetches[k].state = "fulfilled"
        /\ Value(fetches[k].result).statusCode \in codes }

\* the message the documentation asks for, for the status codes of the model
CouldNotBeFetched(code) ==
    CASE code = 0   -> "Web app manifest file could not be fetched (status code: 0)"
      [] code = 404 -> "Web app manifest file could not be fetched (status code: 404)"
      [] code = 500 -> "Web app manifest file could not be fetched (status code: 500)"

\* C4 (as claimed): a fetch fulfilled with any status code that is not null and
\* not 200 leaves exactly one finding for its element, with the event's
\* resource and element and the message
\* "Web app manifest file could not be fetched (status code: <code>)".
C4_EveryNon200StatusReported ==
    \A k \in FulfilledWith(StatusCodes \ {Null, Some(200)}) :
        ReportsOf(fetches[k].call) =
            << FindingOf(fetches[k].call,
                         CouldNotBeFetched(Value(Value(fetches[k].result).statusCode))) >>

\* ---------------------------------------------------------------------------
\* C5
\* ---------------------------------------------------------------------------

\* C5: when the only rel = "manifest" element has a non-empty href and its
\* fetch is fulfilled with status code 200 or null, and 'traverse::end' is not
\* delivered before that element, nothing at all is reported, also not by the
\* traverse::end handler.
C5_ValidManifestNoFindings ==
    \A k \in FulfilledWith({Null, Some(200)}) :
        ( /\ ManifestCalls = {fetches[k].call}
          /\ traverseEnd # Null => EndedAfter(fetches[k].call) )
        => reports = <<>>

C5_Witness ==
    /\ \E k \in FulfilledWith({Some(200)}) : ManifestCalls = {fetches[k].call}
    /\ traverseEnd = Some(Len(calls))
    /\ Len(calls) >= 2
    /\ reports = <<>>

\* ---------------------------------------------------------------------------
\* C6
\* ---------------------------------------------------------------------------

FailedFetches == { k \in DOMAIN fetches : fetches[k].state \in {"rejected", "threw"} }

\* C6: when fetchContent throws or its promise is rejected, the invocation has
\* exactly one finding, "Web app manifest file request failed" with its own
\* resource and element, its promise is fulfilled (nothing escapes the
\* handler), manifestIsSpecified is true, and a 'traverse::end' delivered after
\* the element reports no "Web app manifest not specified".
C6_FetchFailureReported ==
    \A k \in FailedFetches :
        /\ ReportsOf(fetches[k].call) = << FindingOf(fetches[k].call, RequestFailed) >>
        /\ calls[fetches[k].call].pc = "fulfilled"
        /\ manifestIsSpecified
        /\ EndedAfter(fetches[k].call) => ReportsWith(NotSpecified) = <<>>

C6_Witness ==
    /\ \E k \in DOMAIN fetches : fetches[k].state = "rejected"
    /\ traverseEnd = Some(Len(calls))
    /\ Len(reports) = 1

\* ---------------------------------------------------------------------------
\* C7
\* ---------------------------------------------------------------------------

\* C7: when the first rel = "manifest" element has no href or an empty one, it
\* has exactly one finding, "Web app manifest specified with invalid 'href'"
\* with its own resource and element, no fetch is started (none at all, as the
\* later ones are duplicates), and manifestIsSpecified is true.
C7_InvalidHrefReported ==
    ( /\ ManifestCalls # {}
      /\ calls[FirstManifest].data.element.href \in {Null, Some("")} )
    => /\ ReportsOf(FirstManifest) = << FindingOf(FirstManifest, InvalidHrefMessage) >>
       /\ fetches = <<>>
       /\ calls[FirstManifest].pc = "fulfilled"
       /\ manifestIsSpecified

C7_Witness ==
    /\ ManifestCalls # {}
    /\ calls[FirstManifest].data.element.href = Some("")
    /\ Cardinality(ManifestCalls) = 2
    /\ Len(reports) = 2
    /\ manifestIsSpecified

\* ---------------------------------------------------------------------------
\* C8
\* ---------------------------------------------------------------------------

\* the rel = "manifest" elements delivered before 'traverse::end'
ManifestsBeforeEnd == { i \in ManifestCalls : EndedAfter(i) }

\* C8: "Web app manifest not specified" is reported only by the traverse::end
\* handler, and it is reported (once) if and only if no rel = "manifest"
\* element was delivered before 'traverse::end' -- whatever became of the first
\* manifest element (invalid href, a status other than 200, a failed fetch).
C8_NotSpecifiedIffNoManifest ==
    /\ \A k \in DOMAIN reports :
          (reports[k].message = NotSpecified) = (reports[k].call = 0)
    /\ Len(ReportsOf(0)) =
          IF traverseEnd # Null /\ ManifestsBeforeEnd = {} THEN 1 ELSE 0

C8_Witness ==
    /\ traverseEnd = Some(1)
    /\ Len(calls) = 1
    /\ calls[1].data.element.rel = Some("manifest")
    /\ calls[1].data.element.href = Null
    /\ reports = << FindingOf(1, InvalidHrefMessage) >>

\* ---------------------------------------------------------------------------
\* C9
\* ---------------------------------------------------------------------------

\* the URL that is to be fetched for the hrefs of Links: the href itself when
\* it has a scheme, else the href resolved against the resource as a relative
\* reference
ExpectedURL(resource, href) ==
    CASE href = "https://cdn.example.com/m.json" -> "https://cdn.example.com/m.json"
      [] href = "/app.manifest" -> "https://example.com/app.manifest"
      [] href = "../site.webmanifest" /\ resource = "https://example.com/page.html"
            -> "https://example.com/site.webmanifest"
      [] href = "../site.webmanifest"
            /\ resource = "https://example.com/docs/pwa/index.html?lang=en"
            -> "https://example.com/docs/site.webmanifest"

\* C9: the URL given to context.fetchContent is the href verbatim when the
\* href has a scheme, and otherwise the href resolved against the resource of
\* the event; resource "https://example.com/page.html" with href
\* "/app.manifest" is fetched as "https://example.com/app.manifest".
C9_FetchedURL ==
    \A k \in DOMAIN fetches :
        fetches[k].url =
            ExpectedURL(calls[fetches[k].call].data.resource,
                        Value(calls[fetches[k].call].data.element.href))

C9_Witness ==
    \E k \in DOMAIN fetches :
        /\ calls[fetches[k].call].data.resource = "https://example.com/page.html"
        /\ calls[fetches[k].call].data.element.href = Some("/app.manifest")
        /\ fetches[k].url = "https://example.com/app.manifest"
        /\ fetches[k].state = "fulfilled"

\* ---------------------------------------------------------------------------
\* C10
\* ---------------------------------------------------------------------------

\* C10: manifestIsSpecified is false until the first rel = "manifest" element
\* is handled, true from the step that handles it, and no step (element
\* event, fetch completion, fetch failure, 'traverse::end') makes it false
\* again.
C10_Monotonic ==
    /\ [](manifestIsSpecified = (ManifestCalls # {}))
    /\ [][manifestIsSpecified => manifestIsSpecified']_vars

C10_Witness ==
    /\ manifestIsSpecified
    /\ traverseEnd # Null
    /\ Len(calls) = 3
    /\ FirstManifest = 2
    /\ FailedFetches # {}

\* ---------------------------------------------------------------------------
\* C11
\* ---------------------------------------------------------------------------

\* the step is an invocation of manifestExists
ElementStep == Len(calls') = Len(calls) + 1

\* C11: an 'element::link' event whose rel is not exactly "manifest" (absent,
\* another case, another value) changes nothing: no finding, no fetch, the
\* flag as it was, the href not read, and the handler returns at once --
\* whether or not a manifest was seen or a fetch is pending.
C11_OtherRelNoOp ==
    [][ ( /\ ElementStep
          /\ calls'[Len(calls')].data.element.rel # Some("manifest") )
        => ( /\ reports' = reports
             /\ fetches' = fetches
             /\ manifestIsSpecified' = manifestIsSpecified
             /\ calls'[Len(calls')].read = {"rel"}
             /\ calls'[Len(calls')].pc = "fulfilled"
             /\ SubSeq(calls', 1, Len(calls)) = calls ) ]_vars

C11_Witness ==
    /\ Len(calls) = 3
    /\ calls[1].data.element.rel = Some("Manifest")
    /\ calls[2].data.element.rel = Some("manifest")
    /\ calls[2].pc = "await"
    /\ calls[3].data.element.rel = Null
    /\ manifestIsSpecified
    /\ reports = <<>>
    /\ Len(fetches) = 1

\* ---------------------------------------------------------------------------
\* C12
\* ---------------------------------------------------------------------------

\* the step is the traverse::end handler
EndStep == traverseEnd = Null /\ traverseEnd' # Null

\* C12: the traverse::end handler leaves manifestIsSpecified as it is, starts
\* no fetch, touches no invocation, and reports at most one finding: none when
\* the flag is true, "Web app manifest not specified" when it is false.
C12_EndOnlyReads ==
    [][ EndStep
        => ( /\ manifestIsSpecified' = manifestIsSpecified
             /\ fetches' = fetches
             /\ calls' = calls
             /\ reports' = IF manifestIsSpecified
                           THEN reports
                           ELSE Append(reports,
                                    [ resource |-> Null, element |-> Null,
                                      message |-> NotSpecified, call |-> 0 ]) ) ]_vars

C12_Witness ==
    /\ traverseEnd = Some(2)
    /\ manifestIsSpecified
    /\ SomeFetchPending
    /\ Len(fetches) = 1
    /\ reports = <<>>

\* ---------------------------------------------------------------------------
\* C13
\* ---------------------------------------------------------------------------

\* C13: whatever was reported so far, no invocation ends with an error, the
\* next 'element::link' event and 'traverse::end' are still handled, and
\* whenever invocations wait for their fetch there comes a moment when none
\* waits any more: each has returned normally once its fetch was fulfilled or
\* rejected.
C13_NoAbort ==
    /\ [](\A i \in DOMAIN calls : calls[i].pc \in {"await", "fulfilled"})
    /\ [](Len(calls) < MaxEvents
            => \A data \in ElementFoundEvents : ENABLED manifestExists(data, FALSE))
    /\ [](traverseEnd = Null => ENABLED manifestWasSpecified)
    /\ SomeFetchPending ~> ~SomeFetchPending

C13_Witness ==
    /\ Len(calls) = 3
    /\ \A i \in DOMAIN calls : calls[i].pc = "fulfilled"
    /\ traverseEnd = Some(3)
    /\ Len(reports) = 3
    /\ reports[1].message = InvalidHrefMessage
    /\ reports[2].message = AlreadySpecified
    /\ reports[3].message = AlreadySpecified

\* ---------------------------------------------------------------------------
\* C15
\* ---------------------------------------------------------------------------

\* C15: an instance calls context.fetchContent at most once, and only for the
\* first-arrived rel = "manifest" element, when that element has a non-empty
\* href.
C15_AtMostOneFetch ==
    /\ Len(fetches) <= 1
    /\ \A k \in DOMAIN fetches :
          /\ ManifestCalls # {}
          /\ fetches[k].call = FirstManifest
          /\ calls[fetches[k].call].data.element.href \notin {Null, Some("")}

C15_Witness ==
    /\ Cardinality(ManifestCalls) = 3
    /\ Len(fetches) = 1
    /\ fetches[1].call = 1
    /\ fetches[1].state = "fulfilled"
    /\ \A i \in ManifestCalls : calls[i].data.element.href \notin {Null, Some("")}

\* ---------------------------------------------------------------------------
\* C16
\* ---------------------------------------------------------------------------

\* C16: an invocation of manifestExists reports at most one finding, and the
\* finding carries the resource and the element of the event the invocation
\* was started with, also when it is reported after the fetch and after other
\* events with another resource and element were handled.
C16_OwnResourceAndElement ==
    \A i \in DOMAIN calls :
        /\ Len(ReportsOf(i)) <= 1
        /\ \A k \in DOMAIN reports :
              reports[k].call = i
                  => /\ reports[k].resource = Some(calls[i].data.resource)
                     /\ reports[k].element = Some(calls[i].data.element)

C16_Witness ==
    /\ Len(calls) = 3
    /\ Len(reports) = 2
    /\ reports[1].call = 2
    /\ reports[1].message = AlreadySpecified
    /\ reports[2].call = 1
    /\ reports[2].message = RequestFailed
    /\ calls[1].data.resource # calls[2].data.resource
    /\ calls[1].data.resource # calls[3].data.resource

\* ---------------------------------------------------------------------------
\* C17
\* ---------------------------------------------------------------------------

\* the invocations whose fetch is settled by the step
SettledByStep == { i \in DOMAIN calls : calls[i].pc = "await" /\ calls'[i].pc # "await" }

\* C17: 'traverse::end' handled while a fetch is pending reports nothing, and
\* a fetch settled after 'traverse::end' still has its finding, if any,
\* reported then, at the end of the findings; "Web app manifest not specified"
\* is reported at no time once a rel = "manifest" element was delivered.
C17_EndWhilePending ==
    /\ [][ (EndStep /\ SomeFetchPending) => reports' = reports ]_vars
    /\ [][ (traverseEnd # Null /\ SettledByStep # {})
           => \E i \in SettledByStep :
                 /\ SettledByStep = {i}
                 /\ traverseEnd' = traverseEnd
                 /\ \/ /\ reports' = reports
                       /\ ~FetchFailedStatus(Value(fetches'[FetchOf(i)].result).statusCode)
                       /\ fetches'[FetchOf(i)].state = "fulfilled"
                    \/ /\ Len(reports') = Len(reports) + 1
                       /\ SubSeq(reports', 1, Len(reports)) = reports
                       /\ reports'[Len(reports')].call = i
                       /\ reports'[Len(reports')].message # NotSpecified ]_vars
    /\ [](ReportsWith(NotSpecified) # <<>> => ManifestsBeforeEnd = {})

C17_Witness ==
    /\ traverseEnd = Some(1)
    /\ Len(calls) = 1
    /\ calls[1].pc = "await"
    /\ fetches[1].state = "pending"
    /\ ReportsWith(NotSpecified) = <<>>

\* ---------------------------------------------------------------------------
\* C18
\* ---------------------------------------------------------------------------

\* the findings that are neither "not specified" nor "already specified"
OtherFindings ==
    SelectSeq(reports, LAMBDA r : r.message \notin {NotSpecified, AlreadySpecified})

\* C18: when 'traverse::end' is delivered after all element events, a
\* "Web app manifest not specified" finding is the only finding; and with
\* n >= 1 rel = "manifest" elements the findings are n - 1 "already specified"
\* ones plus at most one more, which is the first manifest element's.
C18_FindingCount ==
    traverseEnd = Some(Len(calls)) =>
        /\ ReportsWith(NotSpecified) # <<>> => Len(reports) = 1
        /\ ManifestCalls # {} =>
              /\ Len(ReportsWith(AlreadySpecified)) = Cardinality(ManifestCalls) - 1
              /\ Len(OtherFindings) <= 1
              /\ \A k \in DOMAIN OtherFindings : OtherFindings[k].call = FirstManifest
              /\ Len(reports) = Len(ReportsWith(AlreadySpecified)) + Len(OtherFindings)

C18_Witness ==
    /\ traverseEnd = Some(3)
    /\ Cardinality(ManifestCalls) = 3
    /\ Len(reports) = 3
    /\ Len(OtherFindings) = 1
    /\ \A i \in DOMAIN calls : calls[i].pc = "fulfilled"

\* ---------------------------------------------------------------------------
\* C14
\* ---------------------------------------------------------------------------

\* the state of the instance that events are delivered to
Running ==
    [ manifestIsSpecified |-> manifestIsSpecified,
      calls |-> calls, fetches |-> fetches,
      reports |-> reports, traverseEnd |-> traverseEnd ]

\* an instance has seen only its own events: its flag is true exactly when
\* one of its own elements had rel = "manifest", and it has reported
\* "Web app manifest not specified" exactly when its own 'traverse::end' came
\* before any such element
OwnEventsOnly(inst) ==
    LET manifests == { i \in DOMAIN inst.calls :
                          inst.calls[i].data.element.rel = Some("manifest") }
        missing   == SelectSeq(inst.reports, LAMBDA r : r.message = NotSpecified)
    IN  /\ inst.manifestIsSpecified = (manifests # {})
        /\ Len(missing) =
              IF /\ inst.traverseEnd # Null
                 /\ \A i \in manifests : i > Value(inst.traverseEnd)
              THEN 1 ELSE 0
        /\ \A k \in DOMAIN inst.reports : inst.reports[k].call \in {0} \cup DOMAIN inst.calls

\* C14: every call of create() gives an instance whose flag starts false and
\* whose findings start empty; the flag and the findings of an instance follow
\* from the events delivered to that instance alone; and a handler of one
\* instance leaves the other instance as it is.
C14_PerInstanceState ==
    /\ [](OwnEventsOnly(Running) /\ (parked # Null => OwnEventsOnly(Value(parked))))
    /\ [][ (parked = Null /\ parked' # Null)
           => ( /\ manifestIsSpecified' = FALSE
                /\ reports' = <<>>
                /\ Value(parked') = Running ) ]_vars
    /\ [][ (parked # Null /\ Running' # Value(parked)) => parked' = parked ]_vars

C14_Witness ==
    /\ parked # Null
    /\ Value(parked).manifestIsSpecified
    /\ Value(parked).reports = <<>>
    /\ Len(Value(parked).calls) = 1
    /\ ~manifestIsSpecified
    /\ Len(calls) = 1
    /\ traverseEnd = Some(1)
    /\ reports = << [ resource |-> Null, element |-> Null,
                      message |-> NotSpecified, call |-> 0 ] >>
====
